---- MODULE Spec2Model ----
(***************************************************************************)
(* Model of ops/sourcemap_trace.py: the base64 VLQ decoder (decode_vlq),   *)
(* the mappings parser (parse_mappings), the position lookup               *)
(* (find_mapping) and the dual lookup attempt of main.                     *)
(*                                                                         *)
(* A Python str is a sequence of one-character strings.  An Optional value *)
(* is a sequence of length at most one: None is << >>, a present value x   *)
(* is << x >>.                                                             *)
(***************************************************************************)
EXTENDS Integers, Sequences, FiniteSets, TLC

VARIABLES
  pc,                \* position of the running call
  encoded, ints, decoded,                          \* decode_vlq and its harness
  mappings_str, sources, names,                    \* arguments of parse_mappings
  generated_line, generated_column, source_index,  \* locals of parse_mappings
  original_line, original_column, name_index,
  result, line_idx, seg_idx,
  mappings, line, column, query_line, mapping      \* main and find_mapping

vars == << pc, encoded, ints, decoded, mappings_str, sources, names,
           generated_line, generated_column, source_index, original_line,
           original_column, name_index, result, line_idx, seg_idx,
           mappings, line, column, query_line, mapping >>

vlq_vars == << encoded, ints, decoded >>

parse_vars == << mappings_str, sources, names, generated_line, generated_column,
                 source_index, original_line, original_column, name_index,
                 result, line_idx, seg_idx >>

find_vars == << mappings, line, column, query_line, mapping >>

None == << >>

Some(x) == << x >>

----------------------------------------------------------------------------
(* Bounds of the checked inputs.                                           *)

MaxLen == 4

MaxInts == 2

MaxAbs == 17

BigVal == 600

MaxPieces == 3

MaxSources == 2

MaxNames == 2

MaxRecs == 2

MaxLine == 7

MaxCol == 2

----------------------------------------------------------------------------
(* Integer helpers for Python's bit operators on non-negative integers.    *)

RECURSIVE Pow2(_)
Pow2(n) == IF n = 0 THEN 1 ELSE 2 * Pow2(n - 1)

RECURSIVE BitAnd(_, _)
BitAnd(a, b) ==
  IF a = 0 \/ b = 0 THEN 0
  ELSE (a % 2) * (b % 2) + 2 * BitAnd(a \div 2, b \div 2)

ShiftLeft(x, n) == x * Pow2(n)

ShiftRight(x, n) == x \div Pow2(n)

----------------------------------------------------------------------------
(* Base64 VLQ decoding.                                                    *)

BASE64_CHARS ==
  << "A", "B", "C", "D", "E", "F", "G", "H", "I", "J", "K", "L", "M", "N", "O", "P",
       "Q", "R", "S", "T", "U", "V", "W", "X", "Y", "Z", "a", "b", "c", "d", "e", "f",
       "g", "h", "i", "j", "k", "l", "m", "n", "o", "p", "q", "r", "s", "t", "u", "v",
       "w", "x", "y", "z", "0", "1", "2", "3", "4", "5", "6", "7", "8", "9", "+", "/" >>

BASE64_MAP ==
  [char \in {BASE64_CHARS[i] : i \in DOMAIN BASE64_CHARS} |->
     (CHOOSE i \in DOMAIN BASE64_CHARS : BASE64_CHARS[i] = char) - 1]

VLQ_BASE_SHIFT == 5

VLQ_BASE == ShiftLeft(1, VLQ_BASE_SHIFT)

VLQ_BASE_MASK == VLQ_BASE - 1

VLQ_CONTINUATION_BIT == VLQ_BASE

\* A sign conversion that forgets the sign bit.
FromVLQSignedNoSign(value) == ShiftRight(value, 1)

\* Lines 66-69: bit 0 is the sign, the rest the magnitude.
FromVLQSigned(value) ==
  LET is_negative == BitAnd(value, 1)
      magnitude == ShiftRight(value, 1)
  IN IF is_negative # 0 THEN 0 - magnitude ELSE magnitude

\* The loop of decode_vlq from character i on; the state is the triple
\* (result, shift, value) of the function's locals.
RECURSIVE DecodeLoop(_, _, _, _, _)
DecodeLoop(str, i, res, shift, value) ==
  IF i > Len(str) THEN [result |-> res, shift |-> shift, value |-> value]
  ELSE
    LET char == str[i] IN
    IF char \notin DOMAIN BASE64_MAP
    THEN DecodeLoop(str, i + 1, res, shift, value)
    ELSE
      LET continuation == BitAnd(BASE64_MAP[char], VLQ_CONTINUATION_BIT)
          digit == BitAnd(BASE64_MAP[char], VLQ_BASE_MASK)
          v == value + ShiftLeft(digit, shift)
      IN IF continuation # 0
         THEN DecodeLoop(str, i + 1, res, shift + VLQ_BASE_SHIFT, v)
         ELSE DecodeLoop(str, i + 1, Append(res, FromVLQSigned(v)), 0, 0)

\* A decoder that also emits the value still being assembled at the end.
decode_vlq_flush(str) ==
  LET end == DecodeLoop(str, 1, << >>, 0, 0)
  IN IF end.shift > 0 THEN Append(end.result, FromVLQSigned(end.value))
     ELSE end.result

decode_vlq(str) == DecodeLoop(str, 1, << >>, 0, 0).result

----------------------------------------------------------------------------
(* The matching encoder of the round-trip property.                        *)

ToVLQSigned(v) == IF v < 0 THEN ShiftLeft(0 - v, 1) + 1 ELSE ShiftLeft(v, 1)

RECURSIVE EncodeDigits(_)
EncodeDigits(vlq) ==
  LET digit == BitAnd(vlq, VLQ_BASE_MASK)
      rest == ShiftRight(vlq, VLQ_BASE_SHIFT)
  IN IF rest > 0
     THEN << BASE64_CHARS[digit + VLQ_CONTINUATION_BIT + 1] >> \o EncodeDigits(rest)
     ELSE << BASE64_CHARS[digit + 1] >>

RECURSIVE encode_vlq(_)
encode_vlq(values) ==
  IF values = << >> THEN << >>
  ELSE EncodeDigits(ToVLQSigned(Head(values))) \o encode_vlq(Tail(values))

----------------------------------------------------------------------------
(* parse_mappings.                                                         *)

\* Python's str.split(sep): empty pieces are kept, "" splits into [""].
RECURSIVE SplitLoop(_, _, _, _, _)
SplitLoop(str, sep, i, cur, out) ==
  IF i > Len(str) THEN Append(out, cur)
  ELSE IF str[i] = sep
       THEN SplitLoop(str, sep, i + 1, << >>, Append(out, cur))
       ELSE SplitLoop(str, sep, i + 1, Append(cur, str[i]), out)

Split(str, sep) == SplitLoop(str, sep, 1, << >>, << >>)

\* Line 90.
LinesOf(str) == Split(str, ";")

\* Lines 95-97: an empty group is not split and has no segment.
SegmentsOf(line_mappings) ==
  IF line_mappings # << >> THEN Split(line_mappings, ",") ELSE << >>

SourceMapping(gl, gc, sf, ol, oc, nm) ==
  [generated_line |-> gl, generated_column |-> gc, source_file |-> sf,
   original_line |-> ol, original_column |-> oc, name |-> nm]

\* A column update that only well-formed segments perform.
NextColumnStrict(col, fields) ==
  IF Len(fields) >= 4 THEN col + fields[1] ELSE col

\* Lines 105-106.
NextColumn(col, fields) ==
  IF Len(fields) >= 1 THEN col + fields[1] ELSE col

\* Lines 118-119 and 125-126: the table entry when the index is in range.
Lookup(table, index) ==
  IF 0 <= index /\ index < Len(table) THEN Some(table[index + 1]) ELSE None

\* The first line of the for loop over the groups, resetting every accumulator.
ParseLineResetAll ==
  /\ pc = "parse_line"
  /\ line_idx <= Len(LinesOf(mappings_str))
  /\ generated_column' = 0
  /\ source_index' = 0
  /\ original_line' = 0
  /\ original_column' = 0
  /\ name_index' = 0
  /\ seg_idx' = 1
  /\ pc' = "parse_segment"
  /\ UNCHANGED << mappings_str, sources, names, generated_line, result, line_idx >>
  /\ UNCHANGED vlq_vars
  /\ UNCHANGED find_vars

\* The first line of the for loop over the groups, without the column reset.
ParseLineNoReset ==
  /\ pc = "parse_line"
  /\ line_idx <= Len(LinesOf(mappings_str))
  /\ seg_idx' = 1
  /\ pc' = "parse_segment"
  /\ UNCHANGED << mappings_str, sources, names, generated_line, generated_column,
                  source_index, original_line, original_column, name_index,
                  result, line_idx >>
  /\ UNCHANGED vlq_vars
  /\ UNCHANGED find_vars

\* Lines 92-97: the next group; the column restarts at 0.
ParseLine ==
  /\ pc = "parse_line"
  /\ line_idx <= Len(LinesOf(mappings_str))
  /\ generated_column' = 0
  /\ seg_idx' = 1
  /\ pc' = "parse_segment"
  /\ UNCHANGED << mappings_str, sources, names, generated_line, source_index,
                  original_line, original_column, name_index, result, line_idx >>
  /\ UNCHANGED vlq_vars
  /\ UNCHANGED find_vars

\* The segment the loop of lines 99-135 is at.
CurrentSegment == SegmentsOf(LinesOf(mappings_str)[line_idx])[seg_idx]

\* Lines 99-135: one iteration of the loop over the segments of a group.
ParseSegment ==
  /\ pc = "parse_segment"
  /\ seg_idx <= Len(SegmentsOf(LinesOf(mappings_str)[line_idx]))
  /\ seg_idx' = seg_idx + 1
  /\ IF CurrentSegment = << >>
     THEN UNCHANGED << generated_column, source_index, original_line,
                       original_column, name_index, result >>
     ELSE
       LET fields == decode_vlq(CurrentSegment)
           col == NextColumn(generated_column, fields)
           si == IF Len(fields) >= 4 THEN source_index + fields[2]
                 ELSE source_index
           ol == IF Len(fields) >= 4 THEN original_line + fields[3]
                 ELSE original_line
           oc == IF Len(fields) >= 4 THEN original_column + fields[4]
                 ELSE original_column
           ni == IF Len(fields) >= 5 THEN name_index + fields[5]
                 ELSE name_index
           source_file == IF Len(fields) >= 4 THEN Lookup(sources, si) ELSE None
           orig_line == IF Len(fields) >= 4 THEN Some(ol) ELSE None
           orig_col == IF Len(fields) >= 4 THEN Some(oc) ELSE None
           name == IF Len(fields) >= 5 THEN Lookup(names, ni) ELSE None
       IN /\ generated_column' = col
          /\ source_index' = si
          /\ original_line' = ol
          /\ original_column' = oc
          /\ name_index' = ni
          /\ result' = Append(result,
                          SourceMapping(generated_line, col, source_file,
                                        orig_line, orig_col, name))
  /\ UNCHANGED << pc, mappings_str, sources, names, generated_line, line_idx >>
  /\ UNCHANGED vlq_vars
  /\ UNCHANGED find_vars

\* Line 137: the group is exhausted.
ParseLineEnd ==
  /\ pc = "parse_segment"
  /\ seg_idx > Len(SegmentsOf(LinesOf(mappings_str)[line_idx]))
  /\ generated_line' = generated_line + 1
  /\ line_idx' = line_idx + 1
  /\ pc' = "parse_line"
  /\ UNCHANGED << mappings_str, sources, names, generated_column, source_index,
                  original_line, original_column, name_index, result, seg_idx >>
  /\ UNCHANGED vlq_vars
  /\ UNCHANGED find_vars

\* Line 139 and line 249 of main: the records are handed to the caller.
ParseReturn ==
  /\ pc = "parse_line"
  /\ line_idx > Len(LinesOf(mappings_str))
  /\ mappings' = result
  /\ pc' = "parsed"
  /\ UNCHANGED << line, column, query_line, mapping >>
  /\ UNCHANGED parse_vars
  /\ UNCHANGED vlq_vars

----------------------------------------------------------------------------
(* find_mapping.                                                           *)

\* range(1, 5) of line 149.
OffsetStart == 1

OffsetStop == 5

\* Lines 145, 150, 154: the records of one generated line, in input order.
OnLine(recs, l) == SelectSeq(recs, LAMBDA m : m.generated_line = l)

\* An outward search that tries the forward line before the backward line.
RECURSIVE AdjacentForwardFirst(_, _, _)
AdjacentForwardFirst(recs, l, offset) ==
  IF offset >= OffsetStop THEN << >>
  ELSE IF OnLine(recs, l + offset) # << >> THEN OnLine(recs, l + offset)
  ELSE IF OnLine(recs, l - offset) # << >> THEN OnLine(recs, l - offset)
  ELSE AdjacentForwardFirst(recs, l, offset + 1)

\* Lines 149-157: the loop over the offsets, from `offset` on.
RECURSIVE Adjacent(_, _, _)
Adjacent(recs, l, offset) ==
  IF offset >= OffsetStop THEN << >>
  ELSE IF OnLine(recs, l - offset) # << >> THEN OnLine(recs, l - offset)
  ELSE IF OnLine(recs, l + offset) # << >> THEN OnLine(recs, l + offset)
  ELSE Adjacent(recs, l, offset + 1)

\* Lines 145-157: the records the answer is taken from.
LineMappings(recs, l) ==
  IF OnLine(recs, l) # << >> THEN OnLine(recs, l)
  ELSE Adjacent(recs, l, OffsetStart)

\* Insertion of m after every record whose column is not greater (stable).
RECURSIVE InsertByColumn(_, _)
InsertByColumn(sorted, m) ==
  IF sorted = << >> THEN << m >>
  ELSE IF Head(sorted).generated_column <= m.generated_column
       THEN << Head(sorted) >> \o InsertByColumn(Tail(sorted), m)
       ELSE << m >> \o sorted

\* Line 163: list.sort by generated_column, a stable sort.
RECURSIVE SortByColumn(_)
SortByColumn(recs) ==
  IF recs = << >> THEN << >>
  ELSE InsertByColumn(SortByColumn(SubSeq(recs, 1, Len(recs) - 1)),
                      recs[Len(recs)])

\* A scan that stops at the first record at or before the column.
RECURSIVE ScanFirst(_, _, _, _)
ScanFirst(sorted, i, best, col) ==
  IF i > Len(sorted) THEN best
  ELSE IF sorted[i].generated_column <= col THEN Some(sorted[i])
       ELSE best

\* Lines 166-171: the scan, which breaks at the first record after the column.
RECURSIVE Scan(_, _, _, _)
Scan(sorted, i, best, col) ==
  IF i > Len(sorted) THEN best
  ELSE IF sorted[i].generated_column <= col
       THEN Scan(sorted, i + 1, Some(sorted[i]), col)
       ELSE best

\* Lines 142-177.
find_mapping(recs, l, col) ==
  LET line_mappings == LineMappings(recs, l) IN
  IF line_mappings = << >> THEN None
  ELSE
    LET sorted == SortByColumn(line_mappings)
        best == Scan(sorted, 1, None, col)
    IN IF best = None THEN Some(sorted[1]) ELSE best

\* A first attempt that passes the line as given.
FirstAttemptSameLine ==
  /\ pc = "lookup"
  /\ query_line' = line
  /\ mapping' = find_mapping(mappings, line, column)
  /\ pc' = IF mapping' = None THEN "retry" ELSE "found"
  /\ UNCHANGED << mappings, line, column >>
  /\ UNCHANGED parse_vars
  /\ UNCHANGED vlq_vars

\* Line 258 of main: the first attempt, with the line decremented.
FirstAttempt ==
  /\ pc = "lookup"
  /\ query_line' = line - 1
  /\ mapping' = find_mapping(mappings, line - 1, column)
  /\ pc' = IF mapping' = None THEN "retry" ELSE "found"
  /\ UNCHANGED << mappings, line, column >>
  /\ UNCHANGED parse_vars
  /\ UNCHANGED vlq_vars

\* Lines 260-262 of main: the second attempt, with the line as given.
Retry ==
  /\ pc = "retry"
  /\ query_line' = line
  /\ mapping' = find_mapping(mappings, line, column)
  /\ pc' = IF mapping' = None THEN "not_found" ELSE "found"
  /\ UNCHANGED << mappings, line, column >>
  /\ UNCHANGED parse_vars
  /\ UNCHANGED vlq_vars

----------------------------------------------------------------------------
(* The decoder and its round-trip harness as steps.                        *)

Decode ==
  /\ pc \in {"raw", "encoded"}
  /\ decoded' = decode_vlq(encoded)
  /\ pc' = IF pc = "raw" THEN "decoded" ELSE "roundtrip"
  /\ UNCHANGED << encoded, ints >>
  /\ UNCHANGED parse_vars
  /\ UNCHANGED find_vars

Encode ==
  /\ pc = "ints"
  /\ encoded' = encode_vlq(ints)
  /\ pc' = "encoded"
  /\ UNCHANGED << ints, decoded >>
  /\ UNCHANGED parse_vars
  /\ UNCHANGED find_vars

----------------------------------------------------------------------------
(* Bounded inputs and specifications.                                      *)

SeqsUpTo(S, n) == UNION {[1..k -> S] : k \in 0..n}

RECURSIVE Concat(_)
Concat(ss) == IF ss = << >> THEN << >> ELSE Head(ss) \o Concat(Tail(ss))

\* Characters of the decoder's inputs: digits 0, 1, 2, 3, 31 without and
\* 32, 33, 63 with the continuation bit, and two characters outside the alphabet.
VlqChars == {"A", "B", "C", "D", "f", "g", "h", "/", "!", " "}

IntValues == ((0 - MaxAbs)..MaxAbs) \cup {BigVal, 0 - BigVal}

Pieces ==
  { << ";" >>, << "," >>, << "A" >>, << "C" >>, << "D" >>, << "g" >>,
    << "C", "D" >>, << "A", "A", "A", "A" >>, << "A", "C", "C", "C" >>, << "A", "D", "A", "A" >> }

SourceNames == << "a.js", "b.js", "c.js", "d.js" >>

IdentNames == << "f", "g", "h", "i" >>

Records ==
  { SourceMapping(gl, gc, None, None, None, None) :
      gl \in 0..MaxLine, gc \in 0..MaxCol }

QueryLines == 0..(MaxLine + 1)

IdleVlq == encoded = << >> /\ ints = << >> /\ decoded = << >>

IdleParse ==
  /\ mappings_str = << >> /\ sources = << >> /\ names = << >>
  /\ generated_line = 0 /\ generated_column = 0 /\ source_index = 0
  /\ original_line = 0 /\ original_column = 0 /\ name_index = 0
  /\ result = << >> /\ line_idx = 1 /\ seg_idx = 1

IdleFind ==
  /\ mappings = << >> /\ line = 0 /\ column = 0 /\ query_line = 0
  /\ mapping = None

InitVlq ==
  /\ \/ pc = "raw" /\ encoded \in SeqsUpTo(VlqChars, MaxLen) /\ ints = << >>
     \/ pc = "ints" /\ ints \in SeqsUpTo(IntValues, MaxInts) /\ encoded = << >>
  /\ decoded = << >>
  /\ IdleParse
  /\ IdleFind

NextVlq == Decode \/ Encode

SpecVlq == InitVlq /\ [][NextVlq]_vars

\* Lines 79-87: the locals of parse_mappings at entry.
InitParse ==
  /\ pc = "parse_line"
  /\ mappings_str \in {Concat(ps) : ps \in SeqsUpTo(Pieces, MaxPieces)}
  /\ sources \in {<< >>, SubSeq(SourceNames, 1, MaxSources)}
  /\ names = SubSeq(IdentNames, 1, MaxNames)
  /\ generated_line = 0 /\ generated_column = 0 /\ source_index = 0
  /\ original_line = 0 /\ original_column = 0 /\ name_index = 0
  /\ result = << >> /\ line_idx = 1 /\ seg_idx = 1
  /\ IdleVlq
  /\ IdleFind

NextParse == ParseLine \/ ParseSegment \/ ParseLineEnd \/ ParseReturn

SpecParse == InitParse /\ [][NextParse]_vars

InitFind ==
  /\ pc = "lookup"
  /\ mappings \in SeqsUpTo(Records, MaxRecs)
  /\ line \in QueryLines
  /\ column \in 0..MaxCol
  /\ query_line = 0
  /\ mapping = None
  /\ IdleVlq
  /\ IdleParse

NextFind == FirstAttempt \/ Retry

SpecFind == InitFind /\ [][NextFind]_vars

Init == InitVlq \/ InitParse \/ InitFind

Next == NextVlq \/ NextParse \/ NextFind

Spec == Init /\ [][Next]_vars

----------------------------------------------------------------------------
(* Properties of decode_vlq (SpecVlq).                                     *)

IsBase64(char) == \E i \in DOMAIN BASE64_CHARS : BASE64_CHARS[i] = char

Terminates(char) == IsBase64(char) /\ BASE64_MAP[char] < VLQ_CONTINUATION_BIT

Continues(char) == IsBase64(char) /\ BASE64_MAP[char] >= VLQ_CONTINUATION_BIT

\* The string without its longest suffix free of terminating digits.
RECURSIVE StripIncomplete(_)
StripIncomplete(str) ==
  IF str = << >> \/ Terminates(str[Len(str)]) THEN str
  ELSE StripIncomplete(SubSeq(str, 1, Len(str) - 1))

\* C5: decoding the encoding of a sequence of signed integers gives back
\* that sequence, same values, same order, same length.
C5_RoundTrip == pc = "roundtrip" => decoded = ints

C5_Witness ==
  /\ pc = "roundtrip"
  /\ Len(ints) = 2
  /\ ints[1] < 0
  /\ ints[2] > MaxAbs
  /\ Len(encoded) > 3
  /\ decoded = ints

\* C7: decode_vlq returns one integer per alphabet character whose
\* continuation bit is clear; characters outside the alphabet change nothing;
\* a trailing run of continuation digits adds no value; the empty string
\* gives the empty sequence.
C7_NoPartial ==
  pc = "decoded" =>
    /\ Len(decoded) = Cardinality({i \in DOMAIN encoded : Terminates(encoded[i])})
    /\ decoded = decode_vlq(SelectSeq(encoded, IsBase64))
    /\ decoded = decode_vlq(StripIncomplete(encoded))
    /\ (encoded = << >> => decoded = << >>)

C7_Witness ==
  /\ pc = "decoded"
  /\ \E i \in DOMAIN encoded : ~IsBase64(encoded[i])
  /\ encoded # << >>
  /\ Continues(encoded[Len(encoded)])
  /\ Len(decoded) = 1

----------------------------------------------------------------------------
(* Properties of parse_mappings (SpecParse).                               *)

NonEmpty(segment) == segment # << >>

\* The decoded non-empty segments of one group, tagged with its 0-based index.
GroupFields(line_mappings, g) ==
  LET segs == SelectSeq(SegmentsOf(line_mappings), NonEmpty)
  IN [j \in 1..Len(segs) |-> [group |-> g, fields |-> decode_vlq(segs[j])]]

RECURSIVE FlattenGroups(_, _)
FlattenGroups(groups, g) ==
  IF g > Len(groups) THEN << >>
  ELSE GroupFields(groups[g], g - 1) \o FlattenGroups(groups, g + 1)

\* Every non-empty segment of the whole input, in input order.
AllSegments == FlattenGroups(LinesOf(mappings_str), 1)

\* The number of non-empty segments the parser has gone through.
NProcessed ==
  LET groups == LinesOf(mappings_str)
      done == FlattenGroups(SubSeq(groups, 1, line_idx - 1), 1)
  IN IF pc = "parse_segment"
     THEN Len(done)
          + Len(SelectSeq(SubSeq(SegmentsOf(groups[line_idx]), 1, seg_idx - 1),
                          NonEmpty))
     ELSE Len(done)

\* Sum of field k (1-based) over the first n segments that have at least
\* minlen fields.
RECURSIVE SumField(_, _, _, _)
SumField(segs, n, k, minlen) ==
  IF n = 0 THEN 0
  ELSE SumField(segs, n - 1, k, minlen)
       + (IF Len(segs[n].fields) >= minlen THEN segs[n].fields[k] ELSE 0)

\* Sum of the first field over segments j..k that lie in the group g.
RECURSIVE GroupColumn(_, _, _, _)
GroupColumn(segs, j, k, g) ==
  IF j > k THEN 0
  ELSE (IF segs[j].group = g /\ Len(segs[j].fields) >= 1
        THEN segs[j].fields[1] ELSE 0)
       + GroupColumn(segs, j + 1, k, g)

EntryAt(table, index) ==
  IF 0 <= index /\ index < Len(table) THEN << table[index + 1] >> ELSE << >>

\* C3 (as stated): in every emitted record source_file, original_line and
\* original_column are all present or all absent.
C3_SourceGroupTogether ==
  \A k \in DOMAIN result :
    /\ (result[k].source_file = None) <=> (result[k].original_line = None)
    /\ (result[k].original_line = None) <=> (result[k].original_column = None)

\* C4: the four accumulators are the sums of their fields over every segment
\* gone through so far in the whole input, group boundaries and out-of-range
\* indexes notwithstanding, and each record's source_file and name are looked
\* up at these totals.
C4_AccumulatorsPersist ==
  LET segs == AllSegments
      n == NProcessed
  IN /\ Len(result) = n
     /\ source_index = SumField(segs, n, 2, 4)
     /\ original_line = SumField(segs, n, 3, 4)
     /\ original_column = SumField(segs, n, 4, 4)
     /\ name_index = SumField(segs, n, 5, 5)
     /\ \A k \in 1..n :
          /\ Len(segs[k].fields) >= 4 =>
               result[k].source_file = EntryAt(sources, SumField(segs, k, 2, 4))
          /\ Len(segs[k].fields) >= 5 =>
               result[k].name = EntryAt(names, SumField(segs, k, 5, 5))

C4_Witness ==
  /\ pc = "parsed"
  /\ \E k \in DOMAIN result :
       /\ result[k].generated_line >= 1
       /\ Len(AllSegments[k].fields) >= 4
       /\ AllSegments[k].fields[2] = 0
       /\ Len(sources) >= 2
       /\ result[k].source_file = << sources[2] >>

\* C6: each record's generated_column is the sum of the first fields of the
\* segments of its own group up to its own segment; earlier groups do not
\* contribute.
C6_ColumnReset ==
  LET segs == AllSegments
  IN \A k \in DOMAIN result :
       /\ result[k].generated_line = segs[k].group
       /\ result[k].generated_column = GroupColumn(segs, 1, k, segs[k].group)

C6_Witness ==
  \E k \in DOMAIN result :
    /\ k > 1
    /\ result[k - 1].generated_line < result[k].generated_line
    /\ result[k - 1].generated_column > 0
    /\ result[k].generated_column = 0

\* C8 (as stated): every emitted record has a non-negative generated_column.
C8_ColumnNonNegative ==
  \A k \in DOMAIN result : result[k].generated_column >= 0

\* C8 (amended): a record has a non-negative generated_column when no segment
\* of its own group up to its own has a negative first field.
C8_ColumnNonNegativeIfDeltas ==
  LET segs == AllSegments
  IN \A k \in DOMAIN result :
       (\A j \in 1..k :
          (segs[j].group = segs[k].group /\ Len(segs[j].fields) >= 1)
            => segs[j].fields[1] >= 0)
       => result[k].generated_column >= 0

C8_Witness ==
  \E k \in DOMAIN result :
    /\ k > 1
    /\ result[k - 1].generated_line < result[k].generated_line
    /\ result[k - 1].generated_column < 0
    /\ Len(AllSegments[k].fields) >= 1
    /\ result[k].generated_column >= 0

\* The parser is about to process a non-empty segment of 2 or 3 fields.
AtShortSegment ==
  /\ pc = "parse_segment"
  /\ seg_idx <= Len(SegmentsOf(LinesOf(mappings_str)[line_idx]))
  /\ CurrentSegment # << >>
  /\ Len(decode_vlq(CurrentSegment)) \in {2, 3}

\* C9: a segment of exactly 2 or 3 fields adds its first field to
\* generated_column, leaves the other four accumulators alone and emits one
\* record without source_file, original_line, original_column and name.
C9_ShortSegmentFrame ==
  [][AtShortSegment =>
       /\ generated_column' = generated_column + decode_vlq(CurrentSegment)[1]
       /\ UNCHANGED << source_index, original_line, original_column, name_index >>
       /\ pc' = "parse_segment"
       /\ result' = Append(result,
                      SourceMapping(generated_line, generated_column',
                                    None, None, None, None))]_vars

C9_Witness ==
  /\ pc = "parse_segment"
  /\ seg_idx > 1
  /\ source_index # 0
  /\ original_line # 0
  /\ LET prev == SegmentsOf(LinesOf(mappings_str)[line_idx])[seg_idx - 1]
     IN /\ prev # << >>
        /\ Len(decode_vlq(prev)) \in {2, 3}
        /\ decode_vlq(prev)[1] # 0
  /\ result # << >>
  /\ result[Len(result)].source_file = None
  /\ result[Len(result)].original_line = None
  /\ result[Len(result)].name = None

----------------------------------------------------------------------------
(* Properties of find_mapping and of main's two attempts (SpecFind).       *)

Called == pc \in {"retry", "found", "not_found"}

HasLine(l) == \E i \in DOMAIN mappings : mappings[i].generated_line = l

ColumnsOn(l) ==
  {mappings[i].generated_column :
     i \in {j \in DOMAIN mappings : mappings[j].generated_line = l}}

\* The lines find_mapping falls back to, in the order of the claim.
FallbackOrder(l) ==
  << l - 1, l + 1, l - 2, l + 2, l - 3, l + 3, l - 4, l + 4 >>

\* C1: when the queried line has records, the answer is a record of that line
\* at the greatest column <= the queried column, or at the smallest column of
\* the line when no column is <= the queried one.
C1_GreatestLowerBound ==
  (Called /\ HasLine(query_line)) =>
    /\ mapping # None
    /\ \E i \in DOMAIN mappings : mappings[i] = mapping[1]
    /\ mapping[1].generated_line = query_line
    /\ LET cols == ColumnsOn(query_line)
           below == {c \in cols : c <= column}
       IN IF below # {}
          THEN /\ mapping[1].generated_column \in below
               /\ \A c \in below : c <= mapping[1].generated_column
          ELSE /\ mapping[1].generated_column \in cols
               /\ \A c \in cols : mapping[1].generated_column <= c

C1_Witness ==
  /\ pc = "found"
  /\ HasLine(query_line)
  /\ \E a, b \in ColumnsOn(query_line) : a <= column /\ column < b
  /\ mapping # None
  /\ mapping[1].generated_column <= column

\* C2: when the queried line has no record, the answer comes from the first
\* line with a record in the order line-1, line+1, ..., line-4, line+4, and
\* the answer is None exactly when no line in [line-4, line+4] has a record.
C2_AdjacentOrder ==
  Called =>
    /\ (mapping = None) <=>
         ~ \E l \in (query_line - 4)..(query_line + 4) : HasLine(l)
    /\ (~HasLine(query_line) /\ mapping # None) =>
         \E k \in 1..8 :
           /\ HasLine(FallbackOrder(query_line)[k])
           /\ \A j \in 1..(k - 1) : ~HasLine(FallbackOrder(query_line)[j])
           /\ mapping[1].generated_line = FallbackOrder(query_line)[k]

C2_Witness ==
  /\ pc = "found"
  /\ ~HasLine(query_line)
  /\ ~HasLine(query_line - 1) /\ ~HasLine(query_line + 1)
  /\ HasLine(query_line - 2) /\ HasLine(query_line + 2)
  /\ mapping # None
  /\ mapping[1].generated_line = query_line - 2

====
